---- MODULE Spec2Model ----
(***************************************************************************)
(* Model of the vault session service (src/VaultService.ts) together with  *)
(* the vault file functions it calls (src/commands/vault.ts, the vault.ts  *)
(* part, lines 53-123).                                                     *)
(*                                                                         *)
(* Every async method is split at its awaits: one action runs from a       *)
(* resumption to the next suspension, as the JavaScript event loop does.   *)
(* Timers are node timers: each pending timer has a remaining time, Tick   *)
(* lets one unit of time pass, a timer whose remaining time is 0 runs its  *)
(* callback (lock) before more time passes.                                *)
(*                                                                         *)
(* Records are JavaScript objects with Object.prototype as prototype, and  *)
(* strings are sequences of UTF-16 code units, so that property access and *)
(* the UTF-8 conversions of encrypt and decrypt do what node does.         *)
(*                                                                         *)
(* An envelope is the base64 text of a buffer of words of four bytes:      *)
(* salt, iv, auth tag, ciphertext. The vault file has permission bits, and *)
(* a process other than the session (the command line of src/cli.ts, or a  *)
(* caller of readVault, writeVault and initVault) reads and writes it.     *)
(***************************************************************************)
EXTENDS Integers, Sequences, FiniteSets, TLC

(* ------------------------------ bounds -------------------------------- *)
\* number of overlapping calls the callers may have in flight
MaxCalls == 2
\* number of timers the event loop can hold pending
MaxTimers == 2
\* options.relockTime, in units of Tick
RelockTime == 2
\* number of distinct non-empty passwords the prompt can return
NumPasswords == 2
\* number of distinct secret names
NumKeys == 2
\* length of the longest string handed to encrypt directly
MaxLen == 2

PasswordNames == <<"pw1", "pw2", "pw3">>
\* secret names: an ordinary one, and two that every JavaScript object
\* inherits from Object.prototype
KeyNames == <<"k1", "__proto__", "toString">>

Passwords == {PasswordNames[i] : i \in 1..NumPasswords}
Keys == {KeyNames[i] : i \in 1..NumKeys}
\* secret values: the empty string and a non-empty one
Values == {"", "v"}
\* what the password prompt can return: "" is the user's cancellation
PromptAnswers == Passwords \cup {""}

Calls == 1..MaxCalls
TimerIds == 1..MaxTimers
Objs == 1..(MaxCalls + 1)

\* JavaScript undefined, for the string-valued fields
Undefined == "undefined"
\* a timer slot with no pending timer
Off == -1

Min(S) == CHOOSE x \in S : \A y \in S : x <= y

(* ------------------------- records and JSON ---------------------------- *)
\* Record<string, string>: a function from some of the keys to values
RecordsOver(K, V) == UNION {[D -> V] : D \in SUBSET K}
Records == RecordsOver(Keys, Values)
EmptyRecord == [k \in {} |-> ""]

\* A string is a sequence of tokens. A token stands for a run of characters
\* that the conversions below carry as one piece (a brace, a name, a value);
\* the UTF-16 code units that UTF-8 does not carry one by one have tokens of
\* their own, see utf8Encode.

\* UTF-16 code units: a high surrogate, a low surrogate, and U+FFFD, the
\* replacement character
HighSurrogate == "\\uD83D"
LowSurrogate == "\\uDE00"
Replacement == "\\uFFFD"

\* Quote that writes every code unit as it is
Quote_raw(str) == str

\* JSON.stringify writes a surrogate that has no partner as its escape
\* sequence, six characters of ASCII
Quote(str) ==
  IF str = HighSurrogate THEN "\\\\ud83d"
  ELSE IF str = LowSurrogate THEN "\\\\ude00"
  ELSE str

\* JSON.parse reads the escape sequence back
Unquote(tok) ==
  IF tok = Quote(HighSurrogate) THEN HighSurrogate
  ELSE IF tok = Quote(LowSurrogate) THEN LowSurrogate
  ELSE tok

\* the own entries of rec as text: name, value, name, value, ...
RECURSIVE Entries(_, _)
Entries(rec, i) ==
  IF i > Len(KeyNames) THEN <<>>
  ELSE IF KeyNames[i] \in DOMAIN rec
       THEN <<KeyNames[i], Quote(rec[KeyNames[i]])>> \o Entries(rec, i + 1)
       ELSE Entries(rec, i + 1)

\* JSON.stringify(data, null, 2): the own entries of the object, in braces
JSONstringify(rec) == <<"{">> \o Entries(rec, 1) \o <<"}">>

\* JSON.parse defines an own property for each entry, a later entry of the
\* same name replacing an earlier one
RECURSIVE ParseEntries(_, _)
ParseEntries(text, rec) ==
  IF Len(text) < 2 THEN rec
  ELSE ParseEntries(SubSeq(text, 3, Len(text)),
         [k \in (DOMAIN rec) \cup {text[1]} |->
            IF k = text[1] THEN Unquote(text[2]) ELSE rec[k]])

\* JSON.parse of the text of an object
JSONparse(text) == ParseEntries(SubSeq(text, 2, Len(text) - 1), EmptyRecord)

\* the token of a number in a text of JSON
Number == "#1"

\* the token of bytes that are no text
Garbage == "\\x00"

\* the tokens that are not the text of a JSON string
NotString == {"{", "}", "[", "]", "null", Number, Garbage}

\* what JSON.parse makes of a text: an object, null, an array, or a
\* SyntaxError
JSONkind(text) ==
  LET n == Len(text)
  IN  IF text = <<"null">> THEN "null"
      ELSE IF text = <<"[", "]">> THEN "array"
      ELSE IF /\ n >= 2
              /\ n % 2 = 0
              /\ text[1] = "{"
              /\ text[n] = "}"
              /\ \A i \in 2..(n - 1) :
                    IF i % 2 = 0 THEN text[i] \notin NotString
                    ELSE text[i] \notin (NotString \ {Number})
           THEN "object"
           ELSE "SyntaxError"

(* ------------------------------- UTF-8 --------------------------------- *)
\* the 'utf8' input encoding of cipher.update: a surrogate pair becomes the
\* four bytes of its code point, a surrogate without its partner becomes the
\* three bytes of U+FFFD, anything else becomes its own bytes
RECURSIVE utf8Encode(_)
utf8Encode(str) ==
  IF str = <<>> THEN <<>>
  ELSE IF Head(str) = HighSurrogate /\ Len(str) >= 2 /\ str[2] = LowSurrogate
       THEN <<"f0 9f 98 80">> \o utf8Encode(SubSeq(str, 3, Len(str)))
       ELSE IF Head(str) \in {HighSurrogate, LowSurrogate, Replacement}
            THEN <<"ef bf bd">> \o utf8Encode(Tail(str))
            ELSE <<Head(str)>> \o utf8Encode(Tail(str))

\* the 'utf8' output encoding of decipher.update and decipher.final
RECURSIVE utf8Decode(_)
utf8Decode(bytes) ==
  IF bytes = <<>> THEN <<>>
  ELSE (CASE Head(bytes) = "f0 9f 98 80" -> <<HighSurrogate, LowSurrogate>>
          [] Head(bytes) = "ef bf bd" -> <<Replacement>>
          [] OTHER -> <<Head(bytes)>>) \o utf8Decode(Tail(bytes))

(* ------------------------------ crypto --------------------------------- *)
\* Buffers are sequences of words of WordBytes bytes: every length and
\* offset of encrypt and decrypt is a multiple of it
WordBytes == 4
Words(n) == n \div WordBytes

\* crypto.randomBytes(16), line 61, and crypto.randomBytes(12), line 63
SaltBytes == 16
IvBytes == 12
\* the length of the tag cipher.getAuthTag returns, line 70
TagBytes == 16
\* the offsets at which decrypt splits the buffer, lines 85-88
SaltEnd == 16
IvEnd == 28
TagEnd == 44

\* the values crypto.randomBytes can return (salt and iv)
RandomBytes == {1}

\* crypto.randomBytes(n) when the generator gives r
randomBytes(r, n) == [i \in 1..Words(n) |-> [random |-> r]]

\* deriveKey that ignores the password
deriveKey_fixed(password, salt) == [password |-> <<"">>, salt |-> salt]

\* PBKDF2 is modelled symbolically: the key is the pair it was derived from,
\* the password as the UTF-8 bytes pbkdf2Sync takes of a string
deriveKey(password, salt) ==
  [password |-> utf8Encode(<<password>>), salt |-> salt]

\* AES-256-GCM, symbolically. A word of ciphertext is a term over key, iv
\* and the word of plaintext
GCMCipher(key, iv, data) ==
  [i \in 1..Len(data) |-> [key |-> key, iv |-> iv, plain |-> data[i]]]

\* what a word of ciphertext, or of anything else, deciphers to under key
\* and iv
Decipher(key, iv, word) ==
  IF DOMAIN word = {"key", "iv", "plain"} /\ word.key = key /\ word.iv = iv
  THEN word.plain
  ELSE Garbage

\* GCMTag that does not cover the ciphertext
GCMTag_noCipher(key, iv, encrypted) ==
  [i \in 1..Words(TagBytes) |-> [key |-> key, iv |-> iv, word |-> i]]

\* the tag of the ciphertext encrypted under key and iv: each of its words
\* is a term over key, iv and the ciphertext
GCMTag(key, iv, encrypted) ==
  [i \in 1..Words(TagBytes) |->
     [key |-> key, iv |-> iv, word |-> i, data |-> encrypted]]

\* a character that is not of the base64 alphabet
Illegal == [illegal |-> "!"]

\* a bit of a character of a base64 text, or of a word of a buffer, changed
Flip(ch) ==
  IF DOMAIN ch = {"b64"} THEN [b64 |-> [flipped |-> ch.b64]] ELSE ch

\* a character of the text has a bit changed
Tampered(text) ==
  \E i \in 1..Len(text) :
    DOMAIN text[i] = {"b64"} /\ DOMAIN text[i].b64 = {"flipped"}

\* combined.toString('base64'), line 79: a character for every word
base64Encode(buf) == [i \in 1..Len(buf) |-> [b64 |-> buf[i]]]

\* Buffer.from(encryptedData, 'base64'), line 83: the characters that are
\* not of the alphabet are skipped, nothing throws
base64Decode(text) ==
  LET Legal(ch) == DOMAIN ch = {"b64"}
      legal == SelectSeq(text, Legal)
  IN  [i \in 1..Len(legal) |-> legal[i].b64]

\* buf.subarray(start, end), offsets in bytes: the ends are clamped
subarray(buf, start, end) ==
  SubSeq(buf, Words(start) + 1,
         IF Words(end) < Len(buf) THEN Words(end) ELSE Len(buf))

\* encrypt, lines 60-80, when randomBytes returns salt and iv
encrypt(data, password, salt, iv) ==
  LET saltBuf == randomBytes(salt, SaltBytes)
      key == deriveKey(password, saltBuf)
      ivBuf == randomBytes(iv, IvBytes)
      encrypted == GCMCipher(key, ivBuf, utf8Encode(data))
      authTag == GCMTag(key, ivBuf, encrypted)
  IN  base64Encode(saltBuf \o ivBuf \o authTag \o encrypted)

\* the parts of the buffer, lines 83-88
Split(encryptedData) ==
  LET combined == base64Decode(encryptedData)
  IN  [salt |-> subarray(combined, 0, SaltEnd),
       iv |-> subarray(combined, SaltEnd, IvEnd),
       authTag |-> subarray(combined, IvEnd, TagEnd),
       encrypted |-> SubSeq(combined, Words(TagEnd) + 1, Len(combined))]

\* decrypt, lines 82-99, does not throw: createDecipheriv takes any iv that
\* is not empty, setAuthTag any tag of 4, 8, 12 or 16 bytes, and
\* decipher.final throws unless the tag is the start of the tag of this
\* ciphertext under the derived key and the iv
decryptOk(encryptedData, password) ==
  LET part == Split(encryptedData)
      key == deriveKey(password, part.salt)
  IN  /\ Len(part.iv) >= 1
      /\ Len(part.authTag) >= 1
      /\ part.authTag = SubSeq(GCMTag(key, part.iv, part.encrypted),
                               1, Len(part.authTag))

\* decrypt, lines 82-99, when decipher.final does not throw: the plaintext
\* of the ciphertext (decryptOk says when that is)
decrypt(encryptedData, password) ==
  LET part == Split(encryptedData)
      key == deriveKey(password, part.salt)
  IN  utf8Decode([j \in 1..Len(part.encrypted) |->
                    Decipher(key, part.iv, part.encrypted[j])])

(* ------------------------------- state --------------------------------- *)
VARIABLES
  sessionPassword,  \* this.sessionPassword: Undefined, "" or a password
  vaultData,        \* this.vaultData: 0 (undefined) or a reference into heap
  relockTimer,      \* this.relockTimer: 0 (undefined) or a timer id
  timers,           \* the event loop's timers: id -> remaining time or Off
  file,             \* the vault file: <<>> (absent) or <<envelope>>
  heap,             \* the objects the references point to
  call,             \* the calls in flight and completed, one slot each
  sinceLock,        \* history: "none", lock() has never run; "locked", a
                    \* caller's lock() ran last; "expired", the timer's
                    \* lock() ran last; "opened", a password has decrypted
                    \* (or created) the vault file since lock() last ran
  mode,             \* the permission bits of the vault file, 0 with no file
  proc,             \* a process that calls readVault, writeVault and
                    \* initVault itself, as the command line does
  direct,           \* a caller of encrypt and decrypt themselves, as the
                    \* tests of src/test/test-utils.ts are: its arguments
                    \* and what the two functions returned to it
  other             \* a second VaultService, on a vault file of its own:
                    \* its fields, its file and its calls. The variables
                    \* above are those of the instance `this` denotes in
                    \* the step that runs; timers and heap are the one
                    \* event loop and the one heap of the process

vars == <<sessionPassword, vaultData, relockTimer, timers, file, heap, call,
          sinceLock, mode, proc, direct, other>>

\* a slot with no call
IdleCall ==
  [op |-> "none", pc |-> "idle", key |-> Undefined, value |-> Undefined,
   data |-> 0, pw |-> Undefined, content |-> <<>>,
   result |-> "none", ret |-> Undefined, prompts |-> 0,
   fromLocked |-> FALSE, interrupted |-> FALSE, old |-> EmptyRecord]

InFlight(c) == call[c].pc \notin {"idle", "done"}
\* a new call takes the lowest slot that holds no call in flight
FreeSlot(c) == ~InFlight(c) /\ \A d \in Calls : d < c => InFlight(d)
NoneInFlight == \A c \in Calls : ~InFlight(c)

\* truthiness that takes the empty string for a password
Truthy_defined(s) == s /= Undefined

\* JavaScript truthiness of a string | undefined
Truthy(s) == s /= Undefined /\ s /= ""

\* the pending timers
Pending(tms) == {t \in TimerIds : tms[t] /= Off}

\* the permission bits writeVault asks for, line 117: 0o600
Mode0600 == 384
\* the bits of a file another program created with its defaults: 0o644
Mode0644 == 420

\* fs.writeFile(vaultFile, encryptedContent, {encoding, mode: 0o600}), lines
\* 115-118, opens the file with the flag 'w': the mode is that of the open
\* call, which gives it to a file it creates and leaves the bits of a file
\* that exists as they are
writeFileMode(f, m) == IF f = <<>> THEN Mode0600 ELSE m

\* a value JSON.parse returns: an object with its own properties, or null
\* or an array, which here have none
JSONvalue(kind, rec) == [kind |-> kind, value |-> rec]

\* no process at the file
IdleProc ==
  [op |-> "none", pc |-> "idle", password |-> Undefined,
   key |-> Undefined, value |-> Undefined,
   newPassword |-> Undefined, data |-> JSONvalue("object", EmptyRecord),
   content |-> <<>>, result |-> "none",
   ret |-> JSONvalue("object", EmptyRecord), before |-> <<>>,
   wrote |-> <<>>]

\* no caller of encrypt or decrypt
IdleDirect ==
  [pc |-> "idle", data |-> <<>>, password |-> Undefined,
   how |-> "none", at |-> 0,
   encryptedData |-> <<>>, with |-> Undefined, decrypted |-> <<>>]

\* the session after its constructor, lines 22-27
NewSession ==
  /\ sessionPassword = Undefined
  /\ vaultData = 0
  /\ relockTimer = 0
  /\ timers = [t \in TimerIds |-> Off]
  /\ heap = [o \in Objs |-> EmptyRecord]
  /\ call = [c \in Calls |-> IdleCall]
  /\ sinceLock = "none"

\* a second session after its constructor, lines 22-27, with no vault file
OtherSession ==
  [sessionPassword |-> Undefined, vaultData |-> 0, relockTimer |-> 0,
   file |-> <<>>, mode |-> 0, call |-> [c \in Calls |-> IdleCall],
   sinceLock |-> "none", id |-> 2]

\* there is no vault file, and no process at it
NoFile ==
  /\ file = <<>>
  /\ mode = 0
  /\ proc = IdleProc

Init ==
  /\ NewSession
  /\ NoFile
  /\ direct = IdleDirect
  /\ other = OtherSession

(* ------------------------------- heap ---------------------------------- *)
\* the objects some reference points to: the cached records of the two
\* sessions and the records their calls hold or have returned
Referenced(vd, cl) ==
  ({vd, other.vaultData} \cup {cl[c].data : c \in Calls}
     \cup {other.call[c].data : c \in Calls}) \ {0}

\* a fresh object: one no reference points to
NewObj(vd, cl) == Min(Objs \ Referenced(vd, cl))

\* garbage collection: an object no reference points to is gone
Collect(h, vd, cl) ==
  [o \in Objs |-> IF o \in Referenced(vd, cl) THEN h[o] ELSE EmptyRecord]

(* ------------------------------ timers --------------------------------- *)
\* clearTimeout(id)
clearTimeout(id, tms) == IF id = 0 THEN tms ELSE [tms EXCEPT ![id] = Off]

\* the id setTimeout returns
NewTimer(tms) == Min(TimerIds \ Pending(tms))

\* setTimeout(() => this.lock(), this.relockTime)
setTimeout(tms) == [tms EXCEPT ![NewTimer(tms)] = RelockTime]

\* setTimeout has a slot left (the bound on pending timers)
CanSetTimeout(tms) == Pending(tms) /= TimerIds

(* ------------------------- lock and the timer -------------------------- *)
\* history: the calls in flight have had lock() run under them
Interrupt(cl) ==
  [c \in Calls |-> IF cl[c].pc \in {"idle", "done"} THEN cl[c]
                   ELSE [cl[c] EXCEPT !.interrupted = TRUE]]

\* lock(), lines 84-91, run when the event loop's timers are tms
lockBody(tms) ==
  /\ vaultData' = 0
  /\ sessionPassword' = Undefined
  /\ IF relockTimer /= 0
     THEN /\ timers' = clearTimeout(relockTimer, tms)
          /\ relockTimer' = 0
     ELSE /\ timers' = tms
          /\ relockTimer' = relockTimer
  /\ call' = Interrupt(call)
  /\ heap' = Collect(heap, 0, call')
  /\ UNCHANGED <<file, direct, mode, proc, other>>

\* a caller calls lock(); it has no await, so it runs to completion
lock ==
  /\ lockBody(timers)
  /\ sinceLock' = "locked"

\* a timer is due: the event loop removes it and runs its callback,
\* () => this.lock()
TimerFire(t) ==
  /\ timers[t] = 0
  /\ lockBody([timers EXCEPT ![t] = Off])
  /\ sinceLock' = "expired"

\* one unit of time passes; a due timer runs first
Tick ==
  /\ \A t \in TimerIds : timers[t] /= 0
  /\ Pending(timers) /= {}
  /\ timers' = [t \in TimerIds |->
                  IF timers[t] = Off THEN Off ELSE timers[t] - 1]
  /\ UNCHANGED <<sessionPassword, vaultData, relockTimer, file, heap, call,
                 sinceLock, direct, mode, proc, other>>

(* --------------------------- call bookkeeping -------------------------- *)
\* the slot of a call that has completed: its locals are gone
Done(cl, result, data, ret) ==
  [IdleCall EXCEPT !.op = cl.op, !.pc = "done", !.result = result,
                   !.data = data, !.ret = ret, !.pw = cl.pw,
                   !.prompts = cl.prompts, !.fromLocked = cl.fromLocked]

\* the session holds nothing: no password, no record, no timer
Locked ==
  /\ ~Truthy(sessionPassword)
  /\ vaultData = 0
  /\ relockTimer = 0
  /\ Pending(timers) = {}

\* the session holds all three
Unlocked ==
  /\ Truthy(sessionPassword)
  /\ vaultData /= 0
  /\ relockTimer /= 0
  /\ timers[relockTimer] /= Off

\* what Object.prototype, the prototype of every record, gives for key:
\* the accessor __proto__ gives the prototype itself, toString is a method
ObjectPrototype(key) ==
  CASE key = "__proto__" -> "[object Object]"
    [] key = "toString" -> "[Function: toString]"
    [] OTHER -> Undefined

\* vaultData[key]: the own property, else the inherited one
Lookup(rec, key) ==
  IF key \in DOMAIN rec THEN rec[key] ELSE ObjectPrototype(key)

\* vaultData[key] = value: sets the own property; for __proto__, when the
\* record has no own property of that name, it calls the inherited setter,
\* which ignores a value that is not an object
Put(rec, key, value) ==
  IF key = "__proto__" /\ key \notin DOMAIN rec
  THEN rec
  ELSE [k \in (DOMAIN rec) \cup {key} |-> IF k = key THEN value ELSE rec[k]]

(* ---------------------------- save, getItem --------------------------- *)
\* save(vaultData), lines 93-98, up to its await: the slot of the call once
\* writeVault has built the envelope and handed it to fs.writeFile
save(cl, ref, sp, h, salt, iv) ==
  IF ~Truthy(sp)
  THEN Done(cl, "PreconditionError", 0, Undefined)
  ELSE [cl EXCEPT !.pc = "saveWrite", !.data = ref, !.pw = sp,
                  !.content = <<encrypt(JSONstringify(h[ref]), sp, salt, iv)>>]

\* history: a setItem suspended in save remembers the record unlockVault
\* returned to it, as it was before line 109 changed it
Before(cl, rec) == IF cl.pc = "done" THEN cl ELSE [cl EXCEPT !.old = rec]

\* what the caller of unlockVault does with the record ref it returned, when
\* the session holds password sp and record vd and the heap is h:
\* unlockVault's own caller gets ref; getItem (line 104) returns ref[key];
\* setItem (lines 109-110) sets ref[key] and calls save(ref)
AfterUnlock(c, cl, ref, vd, sp, h) ==
  \E salt \in RandomBytes, iv \in RandomBytes :
    LET me == cl[c]
        h2 == IF me.op = "setItem"
              THEN [h EXCEPT ![ref] = Put(h[ref], me.key, me.value)]
              ELSE h
        new == CASE me.op = "unlockVault" -> Done(me, "ok", ref, Undefined)
                 [] me.op = "getItem" ->
                      Done(me, "ok", 0, Lookup(h[ref], me.key))
                 [] me.op = "setItem" ->
                      Before(save(me, ref, sp, h2, salt, iv), h[ref])
    IN  /\ call' = [cl EXCEPT ![c] = new]
        /\ heap' = Collect(h2, vd, call')

(* ----------------------------- unlockVault ----------------------------- *)
\* rearm that leaves the armed timer running
rearm_keep(rt, tms) == [relockTimer |-> rt, timers |-> tms]

\* lines 52-55: an armed timer is cancelled and a new one armed
rearm(rt, tms) ==
  IF rt /= 0
  THEN [relockTimer |-> NewTimer(clearTimeout(rt, tms)),
        timers |-> setTimeout(clearTimeout(rt, tms))]
  ELSE [relockTimer |-> rt, timers |-> tms]

\* scheduleRelock that arms no timer
scheduleRelock_noTimer(rt, tms) == [relockTimer |-> rt, timers |-> tms]

\* scheduleRelock(), lines 47-49
scheduleRelock(rt, tms) ==
  [relockTimer |-> NewTimer(tms), timers |-> setTimeout(tms)]

\* a call of unlockVault, made by op (unlockVault itself, getItem or
\* setItem), runs lines 52-59: it re-arms the timer, returns the cached
\* record if there is one, else suspends at fs.pathExists
Begin(c, op, key, value) ==
  /\ FreeSlot(c)
  /\ LET r == rearm(relockTimer, timers)
         cl == [call EXCEPT ![c] =
                  [IdleCall EXCEPT !.op = op, !.key = key, !.value = value,
                                   !.fromLocked = Locked /\ NoneInFlight]]
     IN  /\ relockTimer' = r.relockTimer
         /\ timers' = r.timers
         /\ IF vaultData /= 0
            THEN AfterUnlock(c, cl, vaultData, vaultData, sessionPassword,
                             heap)
            ELSE /\ call' = [cl EXCEPT ![c].pc = "pathExists"]
                 /\ heap' = Collect(heap, vaultData, call')
         /\ UNCHANGED <<sessionPassword, vaultData, file, sinceLock, direct,
                        mode, proc, other>>

unlockVault(c) == Begin(c, "unlockVault", Undefined, Undefined)

getItem(c, key) == Begin(c, "getItem", key, Undefined)

setItem(c, key, value) == Begin(c, "setItem", key, value)

\* PathExists that enters initializeVault whether there is a file or not
PathExists_init(c) ==
  /\ call[c].pc = "pathExists"
  /\ call' = [call EXCEPT ![c] =
                [@ EXCEPT !.pc = "initPrompt", !.prompts = @ + 1]]
  /\ UNCHANGED <<sessionPassword, vaultData, relockTimer, timers, file, heap,
                 sinceLock, direct, mode, proc, other>>

\* line 59 resumes with the answer of fs.pathExists: no file, line 60 enters
\* initializeVault, which asks for a password (line 32); a file and no
\* password, line 64 asks for one; a file and a password, line 75 calls
\* readVault, which suspends at its own fs.pathExists (line 102)
PathExists(c) ==
  /\ call[c].pc = "pathExists"
  /\ call' = [call EXCEPT ![c] =
       IF file = <<>>
       THEN [@ EXCEPT !.pc = "initPrompt", !.prompts = @ + 1]
       ELSE IF ~Truthy(sessionPassword)
            THEN [@ EXCEPT !.pc = "prompt", !.prompts = @ + 1]
            ELSE [@ EXCEPT !.pc = "readExists", !.pw = sessionPassword]]
  /\ UNCHANGED <<sessionPassword, vaultData, relockTimer, timers, file, heap,
                 sinceLock, direct, mode, proc, other>>

\* lines 32-41: the prompt of initializeVault answers p; an empty answer
\* throws, any other is handed to initVault, which suspends at fs.writeFile
InitPrompt(c, p) ==
  /\ call[c].pc = "initPrompt"
  /\ sessionPassword' = p
  /\ \E salt \in RandomBytes, iv \in RandomBytes :
       call' = [call EXCEPT ![c] =
         IF ~Truthy(p)
         THEN Done(@, "CancelledError", 0, Undefined)
         ELSE [@ EXCEPT !.pc = "initWrite", !.pw = p,
                 !.content = <<encrypt(JSONstringify(EmptyRecord), p,
                                       salt, iv)>>]]
  /\ UNCHANGED <<vaultData, relockTimer, timers, file, heap, sinceLock,
                 direct, mode, proc, other>>

\* lines 41-44: the write of initVault succeeded; the session caches a new
\* empty record, arms the timer and returns another new empty record
InitWriteOk(c) ==
  /\ call[c].pc = "initWrite"
  /\ CanSetTimeout(timers)
  /\ LET o1 == NewObj(0, call)
         o2 == Min(Objs \ (Referenced(0, call) \cup {o1}))
         h == [heap EXCEPT ![o1] = EmptyRecord, ![o2] = EmptyRecord]
         s == scheduleRelock(relockTimer, timers)
     IN  /\ file' = call[c].content
         /\ mode' = writeFileMode(file, mode)
         /\ vaultData' = o1
         /\ relockTimer' = s.relockTimer
         /\ timers' = s.timers
         /\ AfterUnlock(c, call, o2, o1, sessionPassword, h)
  /\ sinceLock' = "opened"
  /\ UNCHANGED <<sessionPassword, direct, proc, other>>

\* line 41 throws: fs.writeFile failed
InitWriteFail(c) ==
  /\ call[c].pc = "initWrite"
  /\ call' = [call EXCEPT ![c] = Done(@, "IOError", 0, Undefined)]
  /\ UNCHANGED <<sessionPassword, vaultData, relockTimer, timers, file, heap,
                 sinceLock, direct, mode, proc, other>>

\* lines 64-75: the prompt answers p; an empty answer throws, any other is
\* handed to readVault, which suspends at fs.pathExists
Prompt(c, p) ==
  /\ call[c].pc = "prompt"
  /\ sessionPassword' = p
  /\ call' = [call EXCEPT ![c] =
       IF ~Truthy(p)
       THEN Done(@, "CancelledError", 0, Undefined)
       ELSE [@ EXCEPT !.pc = "readExists", !.pw = p]]
  /\ UNCHANGED <<vaultData, relockTimer, timers, file, heap, sinceLock,
                 direct, mode, proc, other>>

\* the catch block without line 79
catch_keepPassword(c) ==
  /\ call' = [call EXCEPT ![c] = Done(@, "DecryptError", 0, Undefined)]
  /\ UNCHANGED <<sessionPassword, vaultData, relockTimer, timers, file, heap,
                 sinceLock, direct, mode, proc, other>>

\* catch that reports a file that was changed with an error of its own
catch_tell(c) ==
  /\ sessionPassword' = Undefined
  /\ call' = [call EXCEPT ![c] =
                Done(@, IF file /= <<>> /\ Tampered(file[1])
                        THEN "CorruptError" ELSE "DecryptError",
                     0, Undefined)]
  /\ UNCHANGED <<vaultData, relockTimer, timers, file, heap, sinceLock,
                 direct, mode, proc, other>>

\* catch that replaces the file it could not read with a new vault
catch_create(c) ==
  /\ sessionPassword' = Undefined
  /\ file' = <<encrypt(JSONstringify(EmptyRecord), call[c].pw,
                       Min(RandomBytes), Min(RandomBytes))>>
  /\ mode' = writeFileMode(file, mode)
  /\ call' = [call EXCEPT ![c] = Done(@, "DecryptError", 0, Undefined)]
  /\ UNCHANGED <<vaultData, relockTimer, timers, heap, sinceLock, direct,
                 proc, other>>

\* lines 78-81: the catch block of unlockVault
catch(c) ==
  /\ sessionPassword' = Undefined
  /\ call' = [call EXCEPT ![c] = Done(@, "DecryptError", 0, Undefined)]
  /\ UNCHANGED <<vaultData, relockTimer, timers, file, heap, sinceLock,
                 direct, mode, proc, other>>

\* readVault, lines 102-106: no file throws, else it suspends at fs.readFile
ReadExists(c) ==
  /\ call[c].pc = "readExists"
  /\ IF file = <<>>
     THEN catch(c)
     ELSE /\ call' = [call EXCEPT ![c].pc = "readFile"]
          /\ UNCHANGED <<sessionPassword, vaultData, relockTimer, timers,
                         file, heap, sinceLock, direct, mode, proc, other>>

\* readVault, lines 106-108, then unlockVault, lines 75-77: the file is
\* read; if it decrypts under the password of the call and the plaintext
\* parses, the session caches the parsed record, arms the timer and returns
\* the cached record (the files of a session hold the text of an object)
ReadFileOk(c) ==
  /\ call[c].pc = "readFile"
  /\ file /= <<>>
  /\ IF /\ decryptOk(file[1], call[c].pw)
        /\ JSONkind(decrypt(file[1], call[c].pw)) = "object"
     THEN /\ CanSetTimeout(timers)
          /\ LET o == NewObj(0, call)
                 h == [heap EXCEPT
                         ![o] = JSONparse(decrypt(file[1], call[c].pw))]
                 s == scheduleRelock(relockTimer, timers)
             IN  /\ vaultData' = o
                 /\ relockTimer' = s.relockTimer
                 /\ timers' = s.timers
                 /\ AfterUnlock(c, call, o, o, sessionPassword, h)
          /\ sinceLock' = "opened"
          /\ UNCHANGED <<sessionPassword, file, direct, mode, proc, other>>
     ELSE catch(c)

\* fs.readFile failed: line 106 throws into the catch block
ReadFileFail(c) ==
  /\ call[c].pc = "readFile"
  /\ catch(c)

(* -------------------------------- save --------------------------------- *)
\* a caller calls save(record) with a record of its own
saveCall(c, rec) ==
  /\ FreeSlot(c)
  /\ \E salt \in RandomBytes, iv \in RandomBytes :
       LET cl == [call EXCEPT ![c] = [IdleCall EXCEPT !.op = "save"]]
           o == NewObj(vaultData, cl)
           h == [heap EXCEPT ![o] = rec]
       IN  /\ call' = [cl EXCEPT ![c] =
                         save(@, o, sessionPassword, h, salt, iv)]
           /\ heap' = Collect(h, vaultData, call')
  /\ UNCHANGED <<sessionPassword, vaultData, relockTimer, timers, file,
                 sinceLock, direct, mode, proc, other>>

\* SaveWriteOk that writes the record as it is when the write completes
SaveWriteOk_late(c) ==
  /\ call[c].pc = "saveWrite"
  /\ \E salt \in RandomBytes, iv \in RandomBytes :
       file' = <<encrypt(JSONstringify(heap[call[c].data]), call[c].pw,
                         salt, iv)>>
  /\ mode' = writeFileMode(file, mode)
  /\ vaultData' = call[c].data
  /\ call' = [call EXCEPT ![c] = Done(@, "ok", 0, Undefined)]
  /\ heap' = Collect(heap, vaultData', call')
  /\ UNCHANGED <<sessionPassword, relockTimer, timers, sinceLock, direct,
                 proc, other>>

\* SaveWriteOk leaving the file as it finds it
SaveWriteOk_skip(c) ==
  /\ call[c].pc = "saveWrite"
  /\ vaultData' = call[c].data
  /\ call' = [call EXCEPT ![c] = Done(@, "ok", 0, Undefined)]
  /\ heap' = Collect(heap, vaultData', call')
  /\ UNCHANGED <<sessionPassword, relockTimer, timers, file, mode, sinceLock,
                 direct, proc, other>>

\* SaveWriteOk without line 99
SaveWriteOk_noCache(c) ==
  /\ call[c].pc = "saveWrite"
  /\ file' = call[c].content
  /\ mode' = writeFileMode(file, mode)
  /\ call' = [call EXCEPT ![c] = Done(@, "ok", 0, Undefined)]
  /\ heap' = Collect(heap, vaultData, call')
  /\ UNCHANGED <<sessionPassword, vaultData, relockTimer, timers, sinceLock,
                 direct, proc, other>>

\* lines 98-99: fs.writeFile succeeded, the record of the call is cached
SaveWriteOk(c) ==
  /\ call[c].pc = "saveWrite"
  /\ file' = call[c].content
  /\ mode' = writeFileMode(file, mode)
  /\ vaultData' = call[c].data
  /\ call' = [call EXCEPT ![c] = Done(@, "ok", 0, Undefined)]
  /\ heap' = Collect(heap, vaultData', call')
  /\ UNCHANGED <<sessionPassword, relockTimer, timers, sinceLock, direct,
                 proc, other>>

\* line 98 throws: fs.writeFile failed
SaveWriteFail(c) ==
  /\ call[c].pc = "saveWrite"
  /\ call' = [call EXCEPT ![c] = Done(@, "IOError", 0, Undefined)]
  /\ heap' = Collect(heap, vaultData, call')
  /\ UNCHANGED <<sessionPassword, vaultData, relockTimer, timers, file,
                 sinceLock, direct, mode, proc, other>>

(* ---------------------- the caller of unlockVault ---------------------- *)
\* the caller of a completed unlockVault sets an entry of the record the
\* call returned to it (line 57, 60 or 77)
callerSets(c, key, value) ==
  /\ call[c].op = "unlockVault"
  /\ call[c].pc = "done"
  /\ call[c].result = "ok"
  /\ call[c].data /= 0
  /\ heap' = [heap EXCEPT ![call[c].data] = Put(@, key, value)]
  /\ UNCHANGED <<sessionPassword, vaultData, relockTimer, timers, file, call,
                 sinceLock, direct, mode, proc, other>>

(* ----------------------------- two sessions ---------------------------- *)
\* the fields (lines 12, 17-20), the file and the calls of the instance
\* `this` denotes, as the other instance's are kept
This ==
  [sessionPassword |-> sessionPassword, vaultData |-> vaultData,
   relockTimer |-> relockTimer, file |-> file, mode |-> mode, call |-> call,
   sinceLock |-> sinceLock, id |-> 3 - other.id]

\* the step that runs next is one of the other instance: `this` denotes
\* it from now on. Every field is a field of the instance; the module has
\* no state of its own. The callers serialize their calls over the two
\* instances: no call of this one is in flight
Switch ==
  /\ NoneInFlight
  /\ other' = This
  /\ sessionPassword' = other.sessionPassword
  /\ vaultData' = other.vaultData
  /\ relockTimer' = other.relockTimer
  /\ file' = other.file
  /\ mode' = other.mode
  /\ call' = other.call
  /\ sinceLock' = other.sinceLock
  /\ UNCHANGED <<timers, heap, proc, direct>>

\* the timers whose callback, () => this.lock() of line 48, locks this
\* instance: all but the one the other instance armed
OwnTimers == TimerIds \ {other.relockTimer}

\* a caller calls save(record) with the record a completed unlockVault of
\* the other instance returned to it
saveReturned(c) ==
  /\ FreeSlot(c)
  /\ \E d \in Calls, salt \in RandomBytes, iv \in RandomBytes :
       /\ other.call[d].op = "unlockVault"
       /\ other.call[d].pc = "done"
       /\ other.call[d].result = "ok"
       /\ other.call[d].data /= 0
       /\ LET cl == [call EXCEPT ![c] = [IdleCall EXCEPT !.op = "save"]]
          IN  /\ call' = [cl EXCEPT ![c] =
                            save(@, other.call[d].data, sessionPassword,
                                 heap, salt, iv)]
              /\ heap' = Collect(heap, vaultData, call')
  /\ UNCHANGED <<sessionPassword, vaultData, relockTimer, timers, file,
                 sinceLock, direct, mode, proc, other>>

(* ------------------- encrypt and decrypt, called directly -------------- *)
\* the code units of the strings handed to encrypt directly
Chars == {"a", HighSurrogate, LowSurrogate}

\* the strings of at most n code units
RECURSIVE Strings(_)
Strings(n) ==
  IF n = 0 THEN {<<>>}
  ELSE Strings(n - 1) \cup
       {Append(str, ch) : str \in {x \in Strings(n - 1) : Len(x) = n - 1},
                          ch \in Chars}

\* the passwords handed to encrypt and decrypt directly: any string is
\* one, a string of one code unit included
DirectPasswords == PromptAnswers \cup {HighSurrogate, LowSurrogate}

\* the caller has chosen the plaintext and the password
DirectInputs ==
  {[IdleDirect EXCEPT !.pc = "chosen", !.data = str, !.password = p] :
     str \in Strings(MaxLen), p \in DirectPasswords}

InitDirect ==
  /\ NewSession
  /\ NoFile
  /\ direct \in DirectInputs
  /\ other = OtherSession

\* the caller calls encrypt(data, password), lines 60-80
directEncrypt(salt, iv) ==
  /\ direct.pc = "chosen"
  /\ direct' = [direct EXCEPT
                  !.pc = "encrypted",
                  !.encryptedData =
                     <<encrypt(direct.data, direct.password, salt, iv)>>]
  /\ UNCHANGED <<sessionPassword, vaultData, relockTimer, timers, file, heap,
                 call, sinceLock, mode, proc, other>>

\* what is done to the envelope between encrypt and decrypt: a bit of the
\* character at changes ("flip"), a character that is not of the base64
\* alphabet is put in after the character at ("illegal"), or the text is
\* cut after the character at ("cut")
Mangle(text, how, at) ==
  IF how = "flip" THEN [text EXCEPT ![at] = Flip(@)]
  ELSE IF how = "illegal"
       THEN SubSeq(text, 1, at) \o <<Illegal>>
              \o SubSeq(text, at + 1, Len(text))
       ELSE SubSeq(text, 1, at)

\* the envelope changes before the caller hands it to decrypt, once
directMangle(how, at) ==
  /\ direct.pc = "encrypted"
  /\ direct.how = "none"
  /\ at <= Len(direct.encryptedData[1])
  /\ how = "flip" => at >= 1
  /\ how = "cut" => at < Len(direct.encryptedData[1])
  /\ direct' = [direct EXCEPT
                  !.how = how,
                  !.at = at,
                  !.encryptedData =
                     <<Mangle(direct.encryptedData[1], how, at)>>]
  /\ UNCHANGED <<sessionPassword, vaultData, relockTimer, timers, file, heap,
                 call, sinceLock, mode, proc, other>>

\* the caller calls decrypt(encryptedData, p), lines 82-99: decipher.final
\* throws (line 96) or the plaintext is returned
directDecrypt(p) ==
  /\ direct.pc = "encrypted"
  /\ direct' =
       IF decryptOk(direct.encryptedData[1], p)
       THEN [direct EXCEPT !.pc = "decrypted", !.with = p,
                           !.decrypted =
                              <<decrypt(direct.encryptedData[1], p)>>]
       ELSE [direct EXCEPT !.pc = "threw", !.with = p]
  /\ UNCHANGED <<sessionPassword, vaultData, relockTimer, timers, file, heap,
                 call, sinceLock, mode, proc, other>>

\* another program changes a bit of the vault file, in the auth tag or in
\* the ciphertext, once
fileTamper(at) ==
  /\ file /= <<>>
  /\ ~Tampered(file[1])
  /\ at > Words(IvEnd)
  /\ at <= Len(file[1])
  /\ file' = <<Mangle(file[1], "flip", at)>>
  /\ UNCHANGED <<sessionPassword, vaultData, relockTimer, timers, heap, call,
                 sinceLock, mode, proc, direct, other>>

(* --------------- readVault, writeVault, initVault, the CLI ------------- *)
\* the values of the secrets a process writes
FileValues == Values \cup {HighSurrogate}

\* the records a process hands to writeVault
FileRecords == RecordsOver({KeyNames[1]}, FileValues)

\* JSON.parse(text), line 108, when it does not throw
Parse(text) ==
  JSONvalue(JSONkind(text),
            IF JSONkind(text) = "object" THEN JSONparse(text)
            ELSE EmptyRecord)

\* JSON.stringify(data, null, 2), line 112, of what JSON.parse returned
Stringify(v) ==
  IF v.kind = "null" THEN <<"null">>
  ELSE IF v.kind = "array" THEN <<"[", "]">>
  ELSE JSONstringify(v.value)

\* plaintexts of vault files that other programs that hold the password
\* made: texts of records, null, an array, text that is not JSON, an object
\* with a number in it
PlantedTexts ==
  {JSONstringify(rec) : rec \in FileRecords}
    \cup {<<"null">>, <<"[", "]">>, <<"{">>,
          <<"{", KeyNames[1], Number, "}">>}

\* the vault file when the process starts: none, or an envelope under the
\* first password, as encrypt returns it or with a character that is not
\* of the base64 alphabet in front
InitialFiles ==
  {<<>>}
    \cup {<<encrypt(text, PasswordNames[1], r, r)>> :
            text \in PlantedTexts, r \in RandomBytes}
    \cup {<<Mangle(encrypt(JSONstringify(EmptyRecord), PasswordNames[1],
                           r, r), "illegal", 0)>> : r \in RandomBytes}

InitFile ==
  /\ NewSession
  /\ direct = IdleDirect
  /\ other = OtherSession
  /\ proc = IdleProc
  /\ file \in InitialFiles
  /\ mode \in (IF file = <<>> THEN {0} ELSE {Mode0600, Mode0644})

\* a line typed at the prompt of the command line: a password, with blanks
\* around it or without
Typed(P) == [text : P, blanks : BOOLEAN]

\* askPassword of src/cli.ts when stdin is not a terminal, lines 23-28:
\* answer.trim()
askPassword(answer) == answer.text

\* a process calls readVault(file, p), lines 101-109, writeVault(file, p,
\* rec), lines 111-119, or initVault(file, p), lines 121-123, or runs the
\* command change-password of src/cli.ts; writeVault and initVault encrypt
\* the text of the record and suspend at fs.writeFile
procBegin(op, p, rec, salt, iv) ==
  /\ proc.pc \in {"idle", "done", "crashed"}
  /\ op \in {"readVault", "writeVault", "initVault", "change-password"}
  /\ LET data == JSONvalue("object",
                           IF op = "writeVault" THEN rec ELSE EmptyRecord)
         fresh == [IdleProc EXCEPT !.op = op, !.wrote = proc.wrote,
                                   !.before = file]
     IN  proc' =
           IF op = "readVault"
           THEN [fresh EXCEPT !.pc = "pathExists", !.password = p]
           ELSE IF op = "change-password"
                THEN [fresh EXCEPT !.pc = "askOld"]
                ELSE [fresh EXCEPT
                        !.pc = "open", !.password = p, !.data = data,
                        !.content =
                           <<encrypt(Stringify(data), p, salt, iv)>>]
  /\ UNCHANGED <<sessionPassword, vaultData, relockTimer, timers, file, heap,
                 call, sinceLock, mode, direct, other>>

\* src/cli.ts, line 128: the current password is asked
cliAskOld(answer) ==
  /\ proc.pc = "askOld"
  /\ proc' = [proc EXCEPT !.pc = "pathExists",
                          !.password = askPassword(answer)]
  /\ UNCHANGED <<sessionPassword, vaultData, relockTimer, timers, file, heap,
                 call, sinceLock, mode, direct, other>>

\* readVault that does not look whether the file exists
procPathExists_noCheck ==
  /\ proc.pc = "pathExists"
  /\ proc' = [proc EXCEPT !.pc = "readFile"]
  /\ UNCHANGED <<sessionPassword, vaultData, relockTimer, timers, file, heap,
                 call, sinceLock, mode, direct, other>>

\* readVault, lines 102-104: no file throws 'Vault file does not exist'
\* (the command then exits with code 1, src/cli.ts, lines 133-136)
procPathExists ==
  /\ proc.pc = "pathExists"
  /\ proc' = IF file = <<>>
             THEN [proc EXCEPT !.pc = "done", !.result = "NotFound"]
             ELSE [proc EXCEPT !.pc = "readFile"]
  /\ UNCHANGED <<sessionPassword, vaultData, relockTimer, timers, file, heap,
                 call, sinceLock, mode, direct, other>>

\* what readVault does with the content of the file, lines 107-108: decrypt
\* throws, JSON.parse throws, or what JSON.parse returns is returned
readResult(content, p) ==
  IF ~decryptOk(content, p) THEN "DecryptError"
  ELSE IF JSONkind(decrypt(content, p)) = "SyntaxError" THEN "SyntaxError"
       ELSE "ok"

\* cliApply that starts from an empty record
cliApply_fresh(op, key, value, v) ==
  IF op = "set"
  THEN JSONvalue("object", Put(EmptyRecord, key, value))
  ELSE JSONvalue("object", EmptyRecord)

\* src/cli.ts, line 95, data[key] = value, and line 117, delete data[key],
\* on what readVault returned when that is not null: an object gets or
\* loses its own property; what an array gets is no element of it
cliApply(op, key, value, v) ==
  IF v.kind /= "object" THEN v
  ELSE IF op = "set"
       THEN JSONvalue("object", Put(v.value, key, value))
       ELSE JSONvalue("object",
                      [k \in (DOMAIN v.value) \ {key} |-> v.value[k]])

\* readVault, lines 106-108: the file is read, decrypted and parsed; the
\* command change-password goes on to ask the new password (src/cli.ts,
\* line 130) or exits with code 1 (lines 133-136); set and remove change
\* what was read (lines 95 and 117, which throw on null) and call
\* writeVault (lines 96 and 118), which encrypts and suspends at
\* fs.writeFile
procReadFile ==
  /\ proc.pc = "readFile"
  /\ \E salt \in RandomBytes, iv \in RandomBytes :
      proc' =
       IF file = <<>>
       THEN [proc EXCEPT !.pc = "done", !.result = "ENOENT"]
       ELSE IF readResult(file[1], proc.password) /= "ok"
            THEN [proc EXCEPT
                    !.pc = "done",
                    !.result = readResult(file[1], proc.password)]
            ELSE LET read == Parse(decrypt(file[1], proc.password))
                     new == cliApply(proc.op, proc.key, proc.value, read)
                 IN  CASE proc.op = "change-password" ->
                            [proc EXCEPT !.pc = "askNew", !.data = read]
                       [] proc.op \in {"set", "remove"} ->
                            IF read.kind = "null"
                            THEN [proc EXCEPT !.pc = "done",
                                              !.result = "TypeError"]
                            ELSE [proc EXCEPT
                                    !.pc = "open",
                                    !.data = new,
                                    !.content =
                                       <<encrypt(Stringify(new),
                                                 proc.password, salt, iv)>>]
                       [] OTHER ->
                            [proc EXCEPT !.pc = "done", !.result = "ok",
                                         !.ret = read]
  /\ UNCHANGED <<sessionPassword, vaultData, relockTimer, timers, file, heap,
                 call, sinceLock, mode, direct, other>>

\* a command of src/cli.ts starts: init (lines 68-76), set <key> <value>
\* (lines 88-98) or remove <key> (lines 110-120); each asks the password
\* first
cliBegin(op, key, value) ==
  /\ proc.pc \in {"idle", "done", "crashed"}
  /\ op \in {"init", "set", "remove"}
  /\ proc' = [IdleProc EXCEPT
                !.op = op,
                !.pc = "ask",
                !.key = IF op = "init" THEN Undefined ELSE key,
                !.value = IF op = "set" THEN value ELSE Undefined,
                !.wrote = proc.wrote,
                !.before = file]
  /\ UNCHANGED <<sessionPassword, vaultData, relockTimer, timers, file, heap,
                 call, sinceLock, mode, direct, other>>

\* src/cli.ts, lines 73-74, 93-94 and 115-116: the password is asked; init
\* hands it to initVault, which encrypts the text of the empty record and
\* suspends at fs.writeFile, without a look at the path; set and remove
\* hand it to readVault
cliAsk(answer, salt, iv) ==
  /\ proc.pc = "ask"
  /\ proc' =
       IF proc.op = "init"
       THEN [proc EXCEPT
               !.pc = "open",
               !.password = askPassword(answer),
               !.content =
                  <<encrypt(JSONstringify(EmptyRecord), askPassword(answer),
                            salt, iv)>>]
       ELSE [proc EXCEPT !.pc = "pathExists",
                         !.password = askPassword(answer)]
  /\ UNCHANGED <<sessionPassword, vaultData, relockTimer, timers, file, heap,
                 call, sinceLock, mode, direct, other>>

\* cliAskNew that writes under the current password
cliAskNew_old(answer, salt, iv) ==
  /\ proc.pc = "askNew"
  /\ proc' = [proc EXCEPT
                !.pc = "open",
                !.newPassword = askPassword(answer),
                !.content = <<encrypt(Stringify(proc.data), proc.password,
                                      salt, iv)>>]
  /\ UNCHANGED <<sessionPassword, vaultData, relockTimer, timers, file, heap,
                 call, sinceLock, mode, direct, other>>

\* src/cli.ts, lines 130-131: the new password is asked, and writeVault
\* encrypts the text of the record under it and suspends at fs.writeFile
cliAskNew(answer, salt, iv) ==
  /\ proc.pc = "askNew"
  /\ proc' = [proc EXCEPT
                !.pc = "open",
                !.newPassword = askPassword(answer),
                !.content = <<encrypt(Stringify(proc.data),
                                      askPassword(answer), salt, iv)>>]
  /\ UNCHANGED <<sessionPassword, vaultData, relockTimer, timers, file, heap,
                 call, sinceLock, mode, direct, other>>

\* fs.writeFile, lines 115-118, opens the file: a file that does not exist
\* is created with the mode, one that exists is cut to no content
procOpen ==
  /\ proc.pc = "open"
  /\ file' = <<<<>>>>
  /\ mode' = writeFileMode(file, mode)
  /\ proc' = [proc EXCEPT !.pc = "write", !.wrote = <<>>]
  /\ UNCHANGED <<sessionPassword, vaultData, relockTimer, timers, heap, call,
                 sinceLock, direct, other>>

\* fs.writeFile, lines 115-118, writes the content and closes the file
procWrite ==
  /\ proc.pc = "write"
  /\ file' = proc.content
  /\ proc' = [proc EXCEPT
                !.pc = "done",
                !.result = "ok",
                !.wrote =
                   <<[op |-> proc.op,
                      password |-> IF proc.op = "change-password"
                                   THEN proc.newPassword
                                   ELSE proc.password,
                      data |-> proc.data]>>]
  /\ UNCHANGED <<sessionPassword, vaultData, relockTimer, timers, heap, call,
                 sinceLock, mode, direct, other>>

\* the process is killed while it is suspended
procCrash ==
  /\ proc.pc \in {"pathExists", "readFile", "open", "write"}
  /\ proc' = [proc EXCEPT !.pc = "crashed"]
  /\ UNCHANGED <<sessionPassword, vaultData, relockTimer, timers, file, heap,
                 call, sinceLock, mode, direct, other>>

(* ----------------------------- specification --------------------------- *)
\* the steps of the session when its callers use the call slots C and the
\* secret names K with values from V, and the password prompt answers from P
Step(C, P, K, V) ==
  \/ lock
  \/ Tick
  \/ \E t \in TimerIds : TimerFire(t)
  \/ \E c \in C : unlockVault(c)
  \/ \E c \in C, k \in K : getItem(c, k)
  \/ \E c \in C, k \in K, v \in V : setItem(c, k, v)
  \/ \E c \in C, rec \in RecordsOver(K, V) : saveCall(c, rec)
  \/ \E c \in C : PathExists(c)
  \/ \E c \in C, p \in P : InitPrompt(c, p)
  \/ \E c \in C : InitWriteOk(c)
  \/ \E c \in C : InitWriteFail(c)
  \/ \E c \in C, p \in P : Prompt(c, p)
  \/ \E c \in C : ReadExists(c)
  \/ \E c \in C : ReadFileOk(c)
  \/ \E c \in C : ReadFileFail(c)
  \/ \E c \in C : SaveWriteOk(c)
  \/ \E c \in C : SaveWriteFail(c)

\* the caller serializes its calls, as the session requires: one call at a
\* time; lock() and the timer still run while that call is suspended
Next == Step({1}, PromptAnswers, {KeyNames[1]}, Values)

Spec == Init /\ [][Next]_vars

\* callers that do not serialize: up to MaxCalls calls overlap; the user
\* knows one password, and types it or cancels; one secret is stored
NextOverlap == Step(Calls, {PasswordNames[1], ""}, {KeyNames[1]}, {"v"})

SpecOverlap == Init /\ [][NextOverlap]_vars

\* one call at a time, on all the secret names, by a user who knows one
\* password, and types it or cancels
NextKeys == Step({1}, {PasswordNames[1], ""}, Keys, Values)

SpecKeys == Init /\ [][NextKeys]_vars

\* one call at a time, by a caller that also writes to the records
\* unlockVault returned to it
NextCaller ==
  \/ Next
  \/ \E k \in {KeyNames[1]}, v \in Values : callerSets(1, k, v)

SpecCaller == Init /\ [][NextCaller]_vars

\* a caller of the two functions: it encrypts its plaintext under its
\* password, then decrypts the envelope under some password
NextDirect ==
  \/ \E salt \in RandomBytes, iv \in RandomBytes : directEncrypt(salt, iv)
  \/ \E how \in {"flip", "illegal", "cut"},
        at \in 0..(Words(TagEnd) + MaxLen) : directMangle(how, at)
  \/ \E p \in DirectPasswords : directDecrypt(p)

SpecDirect == InitDirect /\ [][NextDirect]_vars

\* one call at a time, on a vault file that another program changes: a
\* word of the auth tag, or the first word of the ciphertext
NextTamper ==
  \/ Next
  \/ \E at \in {Words(IvEnd) + 2, Words(TagEnd) + 1} : fileTamper(at)

SpecTamper == Init /\ [][NextTamper]_vars

\* a process at a vault file: it calls readVault, writeVault and initVault,
\* or runs the command change-password, one after the other
NextFile ==
  \/ \E op \in {"readVault", "writeVault", "initVault", "change-password"},
        p \in PromptAnswers, rec \in FileRecords,
        salt \in RandomBytes, iv \in RandomBytes :
        procBegin(op, p, rec, salt, iv)
  \/ \E answer \in Typed(PromptAnswers) : cliAskOld(answer)
  \/ procPathExists
  \/ procReadFile
  \/ \E answer \in Typed(PromptAnswers),
        salt \in RandomBytes, iv \in RandomBytes :
        cliAskNew(answer, salt, iv)
  \/ procOpen
  \/ procWrite
  \/ procCrash

SpecFile == InitFile /\ [][NextFile]_vars

\* the vault file when a command starts: none, or an envelope under the
\* first password of the text of a record, of null or of an array
CliFiles ==
  {<<>>}
    \cup {<<encrypt(text, PasswordNames[1], r, r)>> :
            text \in {JSONstringify(rec) : rec \in Records}
                       \cup {<<"null">>, <<"[", "]">>},
            r \in RandomBytes}

InitCli ==
  /\ NewSession
  /\ direct = IdleDirect
  /\ other = OtherSession
  /\ proc = IdleProc
  /\ file \in CliFiles
  /\ mode \in (IF file = <<>> THEN {0} ELSE {Mode0600})

\* the commands init, set and remove of src/cli.ts, one after the other
NextCli ==
  \/ \E op \in {"init", "set", "remove"}, k \in Keys, v \in Values :
        cliBegin(op, k, v)
  \/ \E answer \in Typed(PromptAnswers),
        salt \in RandomBytes, iv \in RandomBytes : cliAsk(answer, salt, iv)
  \/ procPathExists
  \/ procReadFile
  \/ procOpen
  \/ procWrite

SpecCli == InitCli /\ [][NextCli]_vars

\* the secret names of callers that store two different secrets
TwoKeys == {KeyNames[1], KeyNames[3]}

\* callers of setItem that do not serialize: up to MaxCalls calls of
\* setItem overlap, for two secret names, within less than a unit of time;
\* the user types the one password, no access to the file fails, and
\* nobody calls lock(), so that every call succeeds
NextRace ==
  \/ \E c \in Calls, k \in TwoKeys : setItem(c, k, "v")
  \/ \E c \in Calls : PathExists(c)
  \/ \E c \in Calls : InitPrompt(c, PasswordNames[1])
  \/ \E c \in Calls : InitWriteOk(c)
  \/ \E c \in Calls : ReadExists(c)
  \/ \E c \in Calls : ReadFileOk(c)
  \/ \E c \in Calls : SaveWriteOk(c)

SpecRace == Init /\ [][NextRace]_vars

\* a session and another process at the same vault file: the callers of
\* the session serialize and store the first secret name, the user knows
\* one password; the other process runs the command set for another name
NextShared ==
  \/ Step({1}, {PasswordNames[1]}, {KeyNames[1]}, {"v"})
  \/ cliBegin("set", KeyNames[3], "v")
  \/ \E answer \in Typed({PasswordNames[1]}),
        salt \in RandomBytes, iv \in RandomBytes : cliAsk(answer, salt, iv)
  \/ procPathExists
  \/ procReadFile
  \/ procOpen
  \/ procWrite

SpecShared == Init /\ [][NextShared]_vars

\* callers that do not serialize unlockVault and save, and a user who
\* types one of two passwords at the prompt of a vault that exists; no
\* access to the file fails and no time passes
NextUnchecked ==
  \/ lock
  \/ \E c \in Calls : unlockVault(c)
  \/ \E c \in Calls, rec \in RecordsOver({KeyNames[1]}, {"v"}) :
        saveCall(c, rec)
  \/ \E c \in Calls : PathExists(c)
  \/ \E c \in Calls : InitPrompt(c, PasswordNames[1])
  \/ \E c \in Calls : InitWriteOk(c)
  \/ \E c \in Calls, p \in Passwords : Prompt(c, p)
  \/ \E c \in Calls : ReadExists(c)
  \/ \E c \in Calls : ReadFileOk(c)
  \/ \E c \in Calls : SaveWriteOk(c)

SpecUnchecked == Init /\ [][NextUnchecked]_vars

\* a session whose callers serialize and store one secret, and a process
\* that runs the command init or calls initVault at the same path; the
\* user knows two passwords; no access to the file fails, no time passes
NextInit ==
  \/ lock
  \/ unlockVault(1)
  \/ setItem(1, KeyNames[1], "v")
  \/ PathExists(1)
  \/ \E p \in Passwords : InitPrompt(1, p)
  \/ InitWriteOk(1)
  \/ \E p \in Passwords : Prompt(1, p)
  \/ ReadExists(1)
  \/ ReadFileOk(1)
  \/ SaveWriteOk(1)
  \/ cliBegin("init", Undefined, Undefined)
  \/ \E answer \in Typed(Passwords),
        salt \in RandomBytes, iv \in RandomBytes : cliAsk(answer, salt, iv)
  \/ \E p \in Passwords, salt \in RandomBytes, iv \in RandomBytes :
        procBegin("initVault", p, EmptyRecord, salt, iv)
  \/ procOpen
  \/ procWrite

SpecInit == Init /\ [][NextInit]_vars

\* a vault file that holds the empty record under the first password
EmptyVault ==
  <<encrypt(JSONstringify(EmptyRecord), PasswordNames[1],
            Min(RandomBytes), Min(RandomBytes))>>

\* two sessions, each on a vault file of its own
InitTwo ==
  /\ NewSession
  /\ direct = IdleDirect
  /\ proc = IdleProc
  /\ file = EmptyVault
  /\ mode = Mode0600
  /\ other = [OtherSession EXCEPT !.file = EmptyVault, !.mode = Mode0600]

\* the steps of one instance whose callers serialize, keep their records
\* to themselves, store one secret and know the password
StepOne ==
  \/ lock
  \/ Tick
  \/ \E t \in OwnTimers : TimerFire(t)
  \/ unlockVault(1)
  \/ setItem(1, KeyNames[1], "v")
  \/ PathExists(1)
  \/ Prompt(1, PasswordNames[1])
  \/ ReadExists(1)
  \/ ReadFileOk(1)
  \/ SaveWriteOk(1)

\* two instances in one process, the callers of each keeping the records
\* it returned away from the other
NextApart ==
  \/ Switch
  \/ StepOne

SpecApart == InitTwo /\ [][NextApart]_vars

\* two instances in one process, with callers that hand the record one
\* instance returned to save() of the other
NextTwo ==
  \/ NextApart
  \/ saveReturned(1)

SpecTwo == InitTwo /\ [][NextTwo]_vars

TypeOK ==
  /\ sessionPassword \in Passwords \cup {"", Undefined}
  /\ vaultData \in {0} \cup Objs
  /\ relockTimer \in {0} \cup TimerIds
  /\ relockTimer /= 0 => timers[relockTimer] /= Off
  /\ \A t \in TimerIds : timers[t] \in {Off} \cup (0..RelockTime)
  /\ Len(file) <= 1
  /\ \A o \in Objs : heap[o] \in Records
  /\ mode \in {0, Mode0600, Mode0644}
  /\ (file = <<>>) = (mode = 0)

(* ------------------------------- claims -------------------------------- *)
\* call c completes in this step
Completes(c) == InFlight(c) /\ call'[c].pc = "done"

\* a caller makes an access in this step, in slot c
Access(c) ==
  \/ unlockVault(c)
  \/ \E k \in Keys : getItem(c, k)
  \/ \E k \in Keys, v \in Values : setItem(c, k, v)

\* call c hands vault data to its caller in this step
ReturnsData(c) ==
  /\ \/ Completes(c)
     \/ unlockVault(c)
     \/ \E k \in Keys : getItem(c, k)
  /\ call'[c].pc = "done"
  /\ call'[c].op \in {"unlockVault", "getItem"}
  /\ call'[c].result = "ok"

\* the password the envelope was encrypted under
PasswordOf(envelope) == Split(envelope).authTag[1].key.password[1]

\* C1: whenever no call is in flight the session is either Unlocked (record,
\* password and armed timer all present) or Locked (none of them present).
C1_TwoShapes == NoneInFlight => (Unlocked \/ Locked)

\* C2: a call of unlockVault, save or setItem under which lock() ran (called
\* or by the timer) while it was suspended leaves, when it completes, no
\* cached record without a cached password or without an armed timer.
C2_ConsistentAfterLock ==
  [][\A c \in Calls :
       (/\ Completes(c)
        /\ call[c].interrupted
        /\ call[c].op \in {"unlockVault", "save", "setItem"})
       => (vaultData' /= 0 =>
             Truthy(sessionPassword') /\ relockTimer' /= 0)]_vars

\* C3: once lock() has run, unlockVault and getItem hand out vault data only
\* after a password has decrypted the vault file again.
C3_NoDataAfterLock ==
  [][\A c \in Calls :
       ReturnsData(c) => sinceLock' \notin {"locked", "expired"}]_vars

\* C4: an unlockVault that fails because its password does not decrypt the
\* file leaves no cached password, and an unlockVault that finds the file
\* and no cached password asks the prompt.
C4_FailedDecryptClearsPassword ==
  [][\A c \in Calls :
       /\ (Completes(c) /\ call'[c].result = "DecryptError")
            => ~Truthy(sessionPassword')
       /\ (/\ call[c].pc = "pathExists"
           /\ call'[c].pc /= "pathExists"
           /\ file /= <<>>
           /\ ~Truthy(sessionPassword))
            => call'[c].pc = "prompt" /\ call'[c].prompts = 1]_vars

\* C4's case: a call has failed on a password that is not the file's, and
\* the session holds no password
C4_Witness ==
  \E c \in Calls :
    /\ call[c].pc = "done"
    /\ call[c].result = "DecryptError"
    /\ file /= <<>>
    /\ PasswordOf(file[1]) /= call[c].pw
    /\ ~Truthy(sessionPassword)

\* C5: unlockVault started on a Locked session, whose read of the file
\* completes with a password that is not the file's, fails with the
\* decryption error after exactly one call of the prompt, and leaves the
\* session Locked and the file as it was.
C5_WrongPasswordFails ==
  [][\A c \in Calls :
       (/\ call[c].op = "unlockVault"
        /\ call[c].fromLocked
        /\ call[c].pc = "readFile"
        /\ file /= <<>>
        /\ PasswordOf(file[1]) /= call[c].pw
        /\ call'[c].pc = "done")
       => (/\ call'[c].result = "DecryptError"
           /\ call'[c].prompts = 1
           /\ Locked'
           /\ file' = file)]_vars

\* C5's case: such an unlockVault has failed
C5_Witness ==
  \E c \in Calls :
    /\ call[c].op = "unlockVault"
    /\ call[c].fromLocked
    /\ call[c].pc = "done"
    /\ call[c].result = "DecryptError"
    /\ call[c].prompts = 1
    /\ file /= <<>>
    /\ PasswordOf(file[1]) /= call[c].pw
    /\ Locked

\* C6: unlockVault on an Unlocked session completes at once with the cached
\* record, without a prompt and without touching the file, and the session's
\* timer is then a new one with the full relock time, the old one cancelled.
C6_FastPath ==
  [][\A c \in Calls :
       (unlockVault(c) /\ Unlocked)
       => (/\ call'[c].pc = "done"
           /\ call'[c].result = "ok"
           /\ call'[c].data = vaultData
           /\ call'[c].prompts = 0
           /\ vaultData' = vaultData
           /\ heap'[vaultData] = heap[vaultData]
           /\ sessionPassword' = sessionPassword
           /\ file' = file
           /\ relockTimer' /= 0
           /\ timers'[relockTimer'] = RelockTime
           /\ Pending(timers') \ {relockTimer'}
                = Pending(timers) \ {relockTimer})]_vars

\* C6's case: unlockVault has returned the cached record without a prompt
\* and the session's timer has the full relock time
C6_Witness ==
  \E c \in Calls :
    /\ call[c].op = "unlockVault"
    /\ call[c].pc = "done"
    /\ call[c].result = "ok"
    /\ call[c].prompts = 0
    /\ call[c].data = vaultData
    /\ Unlocked
    /\ timers[relockTimer] = RelockTime
    /\ sinceLock = "opened"

\* lock() would change nothing
LockChangesNothing == ~ENABLED (lock /\ <<sessionPassword, vaultData,
                                         relockTimer, timers>>'
                                   /= <<sessionPassword, vaultData,
                                        relockTimer, timers>>)

\* C7: lock() leaves the session Locked, with no password, no record and no
\* armed timer, and a second lock() right after it changes nothing.
C7_LockIdempotent ==
  [][lock => (Locked' /\ LockChangesNothing')]_vars

\* C8: an access on an Unlocked session moves the relock deadline: after it
\* no timer of the session is due sooner than the relock time.
C8_SlidingExpiry ==
  [][\A c \in Calls :
       (Access(c) /\ Unlocked)
       => \A t \in Pending(timers') : timers'[t] = RelockTime]_vars

\* C9: at most one relock timer is pending at any time.
C9_OneTimer == Cardinality(Pending(timers)) <= 1

\* C10: after the relock timer has fired the session holds no record until
\* the next unlock has decrypted (or created) the file.
C10_StaysLocked == sinceLock = "expired" => vaultData = 0

\* C11: save(record) on a session that holds no cached record, however the
\* session came to hold none, fails at once with the precondition error and
\* changes neither the vault file nor the session.
C11_SaveNeedsUnlocked ==
  [][\A c \in Calls, rec \in Records :
       (saveCall(c, rec) /\ vaultData = 0)
       => (/\ call'[c].pc = "done"
           /\ call'[c].result = "PreconditionError"
           /\ file' = file
           /\ <<sessionPassword, vaultData, relockTimer, timers>>'
                = <<sessionPassword, vaultData, relockTimer, timers>>)]_vars

\* the record the vault file holds for password p (the file exists)
FileRecord(f, p) == JSONparse(decrypt(f[1], p))

\* C12: a save(record) on an Unlocked session, with no lock() under it, that
\* succeeds leaves a file that decrypts under the cached password to exactly
\* record, the cached record equal to record and the cached password as it
\* was; one whose write fails leaves the cached record as it was.
C12_SaveReplaces ==
  [][\A c \in Calls :
       (/\ call[c].op = "save"
        /\ call[c].pc = "saveWrite"
        /\ ~call[c].interrupted
        /\ Unlocked
        /\ call'[c].pc = "done")
       => IF call'[c].result = "ok"
          THEN /\ file' /= <<>>
               /\ decryptOk(file'[1], sessionPassword')
               /\ FileRecord(file', sessionPassword') = heap[call[c].data]
               /\ vaultData' /= 0
               /\ heap'[vaultData'] = heap[call[c].data]
               /\ sessionPassword' = sessionPassword
          ELSE /\ vaultData' = vaultData
               /\ heap'[vaultData'] = heap[vaultData]]_vars

\* C12's case: a save has succeeded on an Unlocked session and the file
\* decrypts under the cached password to the cached record, which has an
\* entry
C12_Witness ==
  \E c \in Calls :
    /\ call[c].op = "save"
    /\ call[c].pc = "done"
    /\ call[c].result = "ok"
    /\ Unlocked
    /\ file /= <<>>
    /\ decryptOk(file[1], sessionPassword)
    /\ FileRecord(file, sessionPassword) = heap[vaultData]
    /\ heap[vaultData] /= EmptyRecord

\* C13: when the write of a setItem(key, value) fails, with no lock() under
\* the call, the cached record is the record it was before the setItem and
\* a getItem(key) that follows returns the value key had then.
C13_SetItemOnCopy ==
  [][\A c \in Calls :
       (/\ call[c].op = "setItem"
        /\ call[c].pc = "saveWrite"
        /\ ~call[c].interrupted
        /\ Unlocked
        /\ call'[c].pc = "done"
        /\ call'[c].result = "IOError")
       => (/\ vaultData' = vaultData
           /\ heap'[vaultData'] = call[c].old
           /\ Lookup(heap'[vaultData'], call[c].key)
                = Lookup(call[c].old, call[c].key))]_vars

\* C14: a caller that sets an entry of a record unlockVault returned to it
\* does not change the cached record, which is what later getItem and
\* unlockVault calls return and what a later setItem writes.
C14_Snapshot ==
  [][\A c \in Calls, k \in Keys, v \in Values :
       (callerSets(c, k, v) /\ vaultData /= 0)
       => (vaultData' = vaultData /\ heap'[vaultData] = heap[vaultData])]_vars

\* C15: when a setItem(k, v), with no lock() under it, succeeds, the cached
\* record, from which a getItem that follows reads, gives v for k and gives
\* for every other name what the record gave before the setItem.
C15_SetThenGet ==
  [][\A c \in Calls :
       (/\ call[c].op = "setItem"
        /\ call[c].pc = "saveWrite"
        /\ ~call[c].interrupted
        /\ call'[c].pc = "done"
        /\ call'[c].result = "ok")
       => (/\ vaultData' /= 0
           /\ Lookup(heap'[vaultData'], call[c].key) = call[c].value
           /\ \A k \in Keys \ {call[c].key} :
                Lookup(heap'[vaultData'], k) = Lookup(call[c].old, k))]_vars

\* the record rec with the entry name -> value set
WithEntry(rec, name, value) ==
  [k \in (DOMAIN rec) \cup {name} |-> IF k = name THEN value ELSE rec[k]]

\* C16: the vault file holds exactly the entries set so far, and an unlock
\* gets them from the file and the password alone: a setItem(k, v) that
\* succeeds leaves the file holding what it held before with k set to v, a
\* step that locks the session leaves the file as it is, and an unlockVault
\* that reads the file returns exactly the record the file holds.
C16_EntriesSurvive ==
  [][\A c \in Calls :
       /\ (/\ call[c].op = "setItem"
           /\ call[c].pc = "saveWrite"
           /\ call'[c].pc = "done"
           /\ call'[c].result = "ok"
           /\ file /= <<>>
           /\ decryptOk(file[1], call[c].pw))
          => (/\ file' /= <<>>
              /\ decryptOk(file'[1], call[c].pw)
              /\ FileRecord(file', call[c].pw)
                   = WithEntry(FileRecord(file, call[c].pw),
                               call[c].key, call[c].value))
       /\ (vaultData /= 0 /\ vaultData' = 0) => file' = file
       /\ (/\ call[c].op = "unlockVault"
           /\ call[c].pc = "readFile"
           /\ call'[c].pc = "done"
           /\ call'[c].result = "ok")
          => (/\ file' = file
              /\ heap'[call'[c].data] = FileRecord(file, call[c].pw))]_vars

\* what the claim lets getItem(key) return when the vault holds rec
AbsentOrEmpty(rec, key, ret) ==
  /\ key \notin DOMAIN rec => ret = Undefined
  /\ (key \in DOMAIN rec /\ rec[key] = "") => (ret = "" /\ ret /= Undefined)

\* C17: a getItem(key) that succeeds returns undefined when the vault has no
\* entry for key, and the empty string, which is not undefined, when the
\* entry of key is the empty string.
C17_AbsentVsEmpty ==
  [][\A c \in Calls :
       /\ \A k \in Keys :
            (getItem(c, k) /\ call'[c].pc = "done")
            => AbsentOrEmpty(heap[vaultData], k, call'[c].ret)
       /\ (/\ call[c].op = "getItem"
           /\ Completes(c)
           /\ ~call[c].interrupted
           /\ call'[c].result = "ok")
          => AbsentOrEmpty(heap'[vaultData'], call[c].key,
                           call'[c].ret)]_vars

\* C18: an unlockVault started on a Locked session, with no lock() under it,
\* that finds no vault file asks the prompt once; when the answer is not
\* empty and the write succeeds, the file is an envelope of the empty record
\* under the answer, the call returns an empty record, and the session is
\* Unlocked: the answer cached, an empty record cached, the timer armed
\* with the full relock time.
C18_InitCreates ==
  [][\A c \in Calls :
       /\ (/\ call[c].op = "unlockVault"
           /\ call[c].fromLocked
           /\ ~call[c].interrupted
           /\ call[c].pc = "pathExists"
           /\ file = <<>>
           /\ call'[c].pc /= "pathExists")
          => (call'[c].pc = "initPrompt" /\ call'[c].prompts = 1)
       /\ (/\ call[c].op = "unlockVault"
           /\ call[c].fromLocked
           /\ ~call[c].interrupted
           /\ call[c].pc = "initWrite"
           /\ call'[c].pc = "done"
           /\ call'[c].result = "ok")
          => (/\ Truthy(call[c].pw)
              /\ file = <<>>
              /\ file' /= <<>>
              /\ decryptOk(file'[1], call[c].pw)
              /\ FileRecord(file', call[c].pw) = EmptyRecord
              /\ call'[c].data /= 0
              /\ heap'[call'[c].data] = EmptyRecord
              /\ call'[c].prompts = 1
              /\ Unlocked'
              /\ sessionPassword' = call[c].pw
              /\ heap'[vaultData'] = EmptyRecord
              /\ timers'[relockTimer'] = RelockTime)]_vars

\* C18's case: an unlockVault started on a Locked session has created the
\* file after one prompt and returned a new empty record; the session is
\* Unlocked with the password of the file
C18_Witness ==
  \E c \in Calls :
    /\ call[c].op = "unlockVault"
    /\ call[c].fromLocked
    /\ call[c].pc = "done"
    /\ call[c].result = "ok"
    /\ call[c].prompts = 1
    /\ call[c].data \notin {0, vaultData}
    /\ heap[call[c].data] = EmptyRecord
    /\ Unlocked
    /\ file /= <<>>
    /\ sessionPassword = PasswordOf(file[1])
    /\ FileRecord(file, sessionPassword) = EmptyRecord
    /\ timers[relockTimer] = RelockTime

\* C19: when the prompt of an unlockVault started on a Locked session, with
\* no lock() under it, answers the empty string, on the path that creates
\* the file and on the path that reads it, the call fails with the
\* cancellation error, the session is Locked (no password, no timer) and the
\* file is as it was, absent if it was absent.
C19_EmptyPasswordCancels ==
  [][\A c \in Calls :
       (/\ InitPrompt(c, "") \/ Prompt(c, "")
        /\ call[c].op = "unlockVault"
        /\ call[c].fromLocked
        /\ ~call[c].interrupted)
       => (/\ call'[c].pc = "done"
           /\ call'[c].result = "CancelledError"
           /\ call'[c].prompts = 1
           /\ Locked'
           /\ ~Truthy(sessionPassword')
           /\ file' = file)]_vars

\* C19's case: an unlockVault started on a Locked session with a vault file
\* has been cancelled at its prompt, and the session is Locked
C19_Witness ==
  \E c \in Calls :
    /\ call[c].op = "unlockVault"
    /\ call[c].fromLocked
    /\ call[c].pc = "done"
    /\ call[c].result = "CancelledError"
    /\ call[c].prompts = 1
    /\ file /= <<>>
    /\ sessionPassword = ""
    /\ Locked

\* the caller has decrypted, or tried to, under the password it encrypted
\* under
DecryptedWithSame ==
  /\ direct.pc \in {"decrypted", "threw"}
  /\ direct.how = "none"
  /\ direct.with = direct.password

\* C20: for every password and every plaintext string, the empty string
\* included, decrypt under the password of what encrypt returned for the
\* string under that password returns the string.
C20_RoundTrip ==
  DecryptedWithSame
  => (direct.pc = "decrypted" /\ direct.decrypted[1] = direct.data)

\* str has no surrogate without its partner
RECURSIVE WellFormed(_)
WellFormed(str) ==
  IF str = <<>> THEN TRUE
  ELSE IF Head(str) = HighSurrogate /\ Len(str) >= 2 /\ str[2] = LowSurrogate
       THEN WellFormed(SubSeq(str, 3, Len(str)))
       ELSE Head(str) \notin {HighSurrogate, LowSurrogate}
            /\ WellFormed(Tail(str))

\* the round trip of C20 for the strings that are well-formed UTF-16
RoundTripWellFormed ==
  (DecryptedWithSame /\ WellFormed(direct.data))
  => (direct.pc = "decrypted" /\ direct.decrypted[1] = direct.data)

\* C21: decrypt of an envelope under a password other than the one it was
\* encrypted under throws, and returns no plaintext.
C21_OtherPasswordFails ==
  (/\ direct.pc \in {"decrypted", "threw"}
   /\ direct.how = "none"
   /\ direct.with /= direct.password)
  => direct.pc = "threw"

\* the passwords that are well-formed UTF-16
WellFormedPassword(p) == WellFormed(<<p>>)

\* decrypt under another password throws when both passwords are
\* well-formed UTF-16
OtherWellFormedPasswordFails ==
  (/\ direct.pc \in {"decrypted", "threw"}
   /\ direct.how = "none"
   /\ direct.with /= direct.password
   /\ WellFormedPassword(direct.with)
   /\ WellFormedPassword(direct.password))
  => direct.pc = "threw"

\* the region of the buffer a character of the envelope belongs to
Region(at) ==
  IF at <= Words(SaltEnd) THEN "salt"
  ELSE IF at <= Words(IvEnd) THEN "iv"
  ELSE IF at <= Words(TagEnd) THEN "authTag"
  ELSE "encrypted"

\* C22: after a bit of the auth tag or of the ciphertext of an envelope of
\* encrypt has changed, decrypt throws under every password, the password of
\* encrypt included.
C22_TamperDetected ==
  (/\ direct.pc \in {"decrypted", "threw"}
   /\ direct.how = "flip"
   /\ Region(direct.at) \in {"authTag", "encrypted"})
  => direct.pc = "threw"

\* C22's case: decrypt has thrown under the password of encrypt, on an
\* envelope with a bit of its ciphertext changed
C22_Witness ==
  /\ direct.pc = "threw"
  /\ direct.how = "flip"
  /\ Region(direct.at) = "encrypted"
  /\ direct.with = direct.password

\* the write the process completed last, if the file is still as that
\* write left it
LastWrite == proc.wrote[1]

\* C23: readVault under the password of the writeVault or initVault that
\* wrote the file last returns a record equal to the one written, the empty
\* record included, and the one initVault wrote where no file was.
C23_WriteThenRead ==
  (/\ proc.op = "readVault"
   /\ proc.pc = "done"
   /\ proc.wrote /= <<>>
   /\ LastWrite.op \in {"writeVault", "initVault"}
   /\ proc.password = LastWrite.password)
  => (proc.result = "ok" /\ proc.ret = LastWrite.data)

\* C23's case: readVault has returned a record with a secret in it that
\* writeVault wrote
C23_Witness ==
  /\ proc.op = "readVault"
  /\ proc.pc = "done"
  /\ proc.result = "ok"
  /\ proc.wrote /= <<>>
  /\ LastWrite.op = "writeVault"
  /\ proc.password = LastWrite.password
  /\ LastWrite.data.value /= EmptyRecord
  /\ proc.ret = LastWrite.data

\* readVault has returned the empty record initVault wrote where no file was
ReadAfterInit ==
  /\ proc.op = "readVault"
  /\ proc.pc = "done"
  /\ proc.result = "ok"
  /\ proc.wrote /= <<>>
  /\ LastWrite.op = "initVault"
  /\ proc.ret = JSONvalue("object", EmptyRecord)

\* C24: readVault with no file at the path fails with 'Vault file does not
\* exist' whatever the password, and leaves the path without a file.
C24_MissingFile ==
  [][(/\ proc.op = "readVault"
      /\ proc.pc = "pathExists"
      /\ file = <<>>
      /\ proc'.pc \notin {"pathExists", "crashed"})
     => (/\ proc'.pc = "done"
         /\ proc'.result = "NotFound"
         /\ file' = <<>>)]_vars

\* C24's case: readVault has failed for want of a file
C24_Witness ==
  /\ proc.op = "readVault"
  /\ proc.pc = "done"
  /\ proc.result = "NotFound"
  /\ file = <<>>

\* the text is that of a flat mapping of strings to strings
FlatMapping(text) ==
  /\ JSONkind(text) = "object"
  /\ \A i \in 1..Len(text) : text[i] /= Number

\* C25: readVault returns flat mappings of strings to strings only: when
\* the file decrypts under the password and the plaintext is not the text of
\* such a mapping, readVault fails, with an error that is not that of a
\* failed decryption.
C25_CorruptDataFails ==
  (/\ proc.op = "readVault"
   /\ proc.pc = "done"
   /\ file /= <<>>
   /\ decryptOk(file[1], proc.password)
   /\ ~FlatMapping(decrypt(file[1], proc.password)))
  => proc.result = "SyntaxError"

\* C26: a write of the vault file that succeeds leaves the file with the
\* permission bits 0600, whether it created the file or the file was there.
C26_WriteSetsMode ==
  [][(proc.pc = "write" /\ proc'.pc = "done") => mode' = Mode0600]_vars

\* the writes that create the file give it the bits 0600
CreatedWithMode ==
  [][(proc.pc = "write" /\ proc'.pc = "done" /\ proc.before = <<>>)
     => mode' = Mode0600]_vars

\* C27: the vault file only ever changes from one complete envelope to the
\* next: a step that changes it leaves the whole of what writeVault is
\* writing.
C27_AtomicWrite ==
  [][file' /= file => file' = proc.content]_vars

\* C28: decrypt throws, and returns no plaintext, for a text with a
\* character that is not of the base64 alphabet and for a text that decodes
\* to fewer bytes than salt, iv and tag have.
C28_MalformedEnvelope ==
  (/\ direct.pc \in {"decrypted", "threw"}
   /\ \/ direct.how = "illegal"
      \/ direct.how = "cut" /\ direct.at < Words(TagEnd))
  => direct.pc = "threw"

\* the password change-password asked first, and the one it asked second
P1 == proc.password
P2 == proc.newPassword

\* readVault of the content under p returns the value v
Reads(content, p, v) ==
  /\ content /= <<>>
  /\ readResult(content[1], p) = "ok"
  /\ Parse(decrypt(content[1], p)) = v

\* C30: when change-password has succeeded with two different passwords,
\* readVault under the new one returns what readVault under the current one
\* returned before, and readVault under the current one fails; when the
\* current password does not decrypt the file the command fails and the file
\* is as it was.
C30_ChangePassword ==
  (proc.op = "change-password" /\ proc.pc = "done")
  => /\ (proc.result = "ok" /\ P1 /= P2)
          => /\ \E v \in {Parse(decrypt(proc.before[1], P1))} :
                  /\ Reads(proc.before, P1, v)
                  /\ Reads(file, P2, v)
             /\ readResult(file[1], P1) /= "ok"
     /\ (proc.before = <<>> \/ ~decryptOk(proc.before[1], P1))
          => (proc.result /= "ok" /\ file = proc.before)

\* C30's case: change-password has succeeded with two different passwords
\* on a vault with a secret in it
C30_Witness ==
  /\ proc.op = "change-password"
  /\ proc.pc = "done"
  /\ proc.result = "ok"
  /\ P1 /= P2
  /\ Reads(file, P2, JSONvalue("object", KeyNames[1] :> "v"))

\* change-password has failed on a password that does not decrypt the file
ChangePasswordRefused ==
  /\ proc.op = "change-password"
  /\ proc.pc = "done"
  /\ proc.result = "DecryptError"
  /\ file = proc.before

\* C29: an unlockVault whose read of the file completes fails with one and
\* the same error when the password is not the file's and when a bit of the
\* file's ciphertext or auth tag was changed.
C29_SameError ==
  [][\A c \in Calls :
       (/\ call[c].op = "unlockVault"
        /\ call[c].pc = "readFile"
        /\ file /= <<>>
        /\ PasswordOf(file[1]) /= call[c].pw \/ Tampered(file[1])
        /\ call'[c].pc = "done")
       => (/\ call'[c].result = "DecryptError"
           /\ call'[c].ret = Undefined)]_vars

\* C29's case: an unlockVault has failed under the password of a file that
\* had a bit changed
C29_Witness ==
  \E c \in Calls :
    /\ call[c].op = "unlockVault"
    /\ call[c].pc = "done"
    /\ call[c].result = "DecryptError"
    /\ file /= <<>>
    /\ Tampered(file[1])
    /\ PasswordOf(file[1]) = call[c].pw

\* what readVault under p returns for the content of a file that holds the
\* text of an object: its own properties
Readable(content, p) == Parse(decrypt(content[1], p)).value

\* the properties other than key are the same in the records old and new
SameBut(old, new, key) ==
  \A j \in Keys \ {key} :
    /\ (j \in DOMAIN old) = (j \in DOMAIN new)
    /\ j \in DOMAIN old => new[j] = old[j]

\* C31: when the command set <k> <v> or remove <k> has succeeded, every key
\* other than k that readVault returned before it is returned with the same
\* value after it, no other key has appeared, and after remove <k> the key k
\* is not in the vault.
C31_OnlyThatKey ==
  (/\ proc.op \in {"set", "remove"}
   /\ proc.pc = "done"
   /\ proc.result = "ok")
  => /\ readResult(file[1], proc.password) = "ok"
     /\ SameBut(Readable(proc.before, proc.password),
                Readable(file, proc.password), proc.key)
     /\ proc.op = "remove"
          => proc.key \notin DOMAIN Readable(file, proc.password)

\* C31's case: remove <k> has succeeded on a vault that held k and another
\* key, and the other key is still there
C31_Witness ==
  /\ proc.op = "remove"
  /\ proc.pc = "done"
  /\ proc.result = "ok"
  /\ proc.key \in DOMAIN Readable(proc.before, proc.password)
  /\ \E j \in Keys \ {proc.key} : j \in DOMAIN Readable(file, proc.password)

\* set <k> <v> has succeeded on a vault that held another key
SetKeepsOthers ==
  /\ proc.op = "set"
  /\ proc.pc = "done"
  /\ proc.result = "ok"
  /\ proc.key \in DOMAIN Readable(file, proc.password)
  /\ \E j \in Keys \ {proc.key} : j \in DOMAIN Readable(file, proc.password)

\* C32: when the write of the new vault file fails on the initialization
\* path, the unlockVault fails with the I/O error and leaves the session
\* Locked, with no password kept.
C32_FailedInitStaysLocked ==
  [][\A c \in Calls :
       (/\ call[c].pc = "initWrite"
        /\ call[c].fromLocked
        /\ ~call[c].interrupted
        /\ call'[c].pc = "done"
        /\ call'[c].result = "IOError")
       => (Locked' /\ ~Truthy(sessionPassword'))]_vars

\* call c is a setItem that has completed without an error
SetItemOk(c) ==
  call[c].op = "setItem" /\ call[c].pc = "done" /\ call[c].result = "ok"

\* C33: setItem calls that overlap race: a write that completes leaves in
\* the file the envelope its own call built when it called save, whatever
\* the other calls have stored since, and caches the record of its own
\* call; so two setItem calls for different keys can both succeed and leave
\* a file that lacks one of the keys and differs from the cached record
\* (C33_Witness).
C33_LastWriteWins ==
  [][\A c \in Calls :
       (/\ call[c].op = "setItem"
        /\ call[c].pc = "saveWrite"
        /\ call'[c].pc = "done"
        /\ call'[c].result = "ok")
       => (file' = call[c].content /\ vaultData' = call[c].data)]_vars

\* C33's case: two setItem calls have both succeeded, the file lacks one of
\* the two keys, and it does not decrypt to the cached record, which has
\* both (the write that completed last came from a call that stored the
\* one key, the other key was stored while that call was suspended)
C33_Witness ==
  /\ \A c \in {1, 2} : SetItemOk(c)
  /\ file /= <<>>
  /\ Unlocked
  /\ decryptOk(file[1], sessionPassword)
  /\ \E k \in TwoKeys : k \notin DOMAIN FileRecord(file, sessionPassword)
  /\ TwoKeys \subseteq DOMAIN heap[vaultData]
  /\ FileRecord(file, sessionPassword) /= heap[vaultData]

\* the file holds, under password p, a key that the record of the text the
\* envelope content was made of does not have
ForeignKey(k, content, p) ==
  /\ file /= <<>>
  /\ decryptOk(file[1], p)
  /\ JSONkind(decrypt(file[1], p)) = "object"
  /\ k \in DOMAIN FileRecord(file, p)
  /\ k \notin DOMAIN FileRecord(content, p)

\* C34: the session does not detect what another process wrote: a write of
\* save or setItem that completes while the file holds a key the session's
\* record lacks fails with no error but that of the file system, and when
\* it succeeds the file no longer has the key.
C34_Clobbers ==
  [][\A c \in Calls, k \in Keys \cup TwoKeys :
       (/\ call[c].pc = "saveWrite"
        /\ ForeignKey(k, call[c].content, call[c].pw)
        /\ call'[c].pc = "done")
       => /\ call'[c].result \in {"ok", "IOError"}
          /\ call'[c].result = "ok"
               => (/\ readResult(file'[1], call[c].pw) = "ok"
                   /\ k \notin DOMAIN FileRecord(file', call[c].pw))]_vars

\* C34's case: the other process has stored its key with success, a
\* setItem of the session has succeeded, the session is Unlocked, and the
\* file does not have the key of the other process
C34_Witness ==
  /\ proc.op = "set"
  /\ proc.pc = "done"
  /\ proc.result = "ok"
  /\ proc.key \in DOMAIN proc.data.value
  /\ SetItemOk(1)
  /\ Unlocked
  /\ readResult(file[1], sessionPassword) = "ok"
  /\ proc.key \notin DOMAIN FileRecord(file, sessionPassword)

\* what an instance holds: its password, its cached record, whether its
\* timer is armed, and its file
Holds(i) ==
  [sessionPassword |-> i.sessionPassword,
   vaultData |-> IF i.vaultData = 0 THEN <<>> ELSE <<heap[i.vaultData]>>,
   armed |-> i.relockTimer /= 0 /\ timers[i.relockTimer] /= Off,
   file |-> i.file]

\* the pending timers are those the two instances refer to
TimersOwned == Pending(timers) \subseteq {relockTimer, other.relockTimer}

\* C35: a step of one instance (unlockVault, setItem, save, lock, the
\* expiry of its timer) leaves what the other instance holds as it is.
C35_Independent ==
  [][other'.id = other.id => Holds(other)' = Holds(other)]_vars


\* where a call is while unlockVault runs for it
UnlockPhase == {"pathExists", "initPrompt", "prompt", "readExists", "readFile"}

\* the errors of an unlock that failed at the prompt or at the password
UnlockErrors == {"CancelledError", "DecryptError"}

\* C36: getItem and setItem on a Locked session run unlockVault first: no
\* step writes the file while it runs, and when it fails the call ends
\* with the error of the unlock, never having reached save, and the
\* session is Locked as before.
C36_FailedUnlockNoWrite ==
  [][\A c \in Calls :
       (/\ call[c].op \in {"getItem", "setItem"}
        /\ call[c].fromLocked
        /\ ~call[c].interrupted
        /\ call[c].pc \in UnlockPhase)
       => /\ file' = file
          /\ mode' = mode
          /\ (call'[c].pc = "done" /\ call'[c].result /= "ok")
               => (/\ call'[c].result \in UnlockErrors
                   /\ Locked')]_vars

\* C36's case: a setItem on a Locked session has failed at the password
\* of a vault file that exists
C36_Witness ==
  /\ call[1].op = "setItem"
  /\ call[1].pc = "done"
  /\ call[1].fromLocked
  /\ call[1].result = "DecryptError"
  /\ file /= <<>>
  /\ Locked


\* C37: the file is written under a checked password only: a write of
\* save() that changes a vault file that exists is made under a password
\* that decrypts it.
C37_WrittenUnderChecked ==
  [][\A c \in Calls :
       (/\ call[c].op = "save"
        /\ call[c].pc = "saveWrite"
        /\ file /= <<>>
        /\ file' /= file)
       => decryptOk(file[1], call[c].pw)]_vars


\* C38: whenever the session is Unlocked and no call is in flight, the vault
\* file decrypts under the cached password to the cached record.
C38_FileIsCache ==
  (Unlocked /\ NoneInFlight)
    => /\ file /= <<>>
       /\ readResult(file[1], sessionPassword) = "ok"
       /\ FileRecord(file, sessionPassword) = heap[vaultData]


\* the passwords a file can be tried with
AnyPassword == Passwords \cup {""}

\* the file f gives entries to some password
HasEntries(f) ==
  /\ f /= <<>>
  /\ \E p \in AnyPassword :
       /\ readResult(f[1], p) = "ok"
       /\ Readable(f, p) /= EmptyRecord

\* C39: initVault and the command init write whatever the path holds: when
\* their write completes the file is the envelope of the empty record under
\* the new password and gives no entries to any password; the session
\* enters initializeVault only when fs.pathExists found no file.
C39_InitReplaces ==
  [][/\ (/\ proc.op \in {"init", "initVault"}
         /\ proc.pc = "write"
         /\ proc'.pc = "done")
        => /\ proc'.result = "ok"
           /\ readResult(file'[1], proc.password) = "ok"
           /\ Readable(file', proc.password) = EmptyRecord
           /\ ~HasEntries(file')
     /\ \A c \in Calls :
          (call[c].pc = "pathExists" /\ call'[c].pc = "initPrompt")
            => file = <<>>]_vars

\* C39's case: the command init has completed on a path that held a vault
\* with entries when the command started, and the file gives none
C39_Witness ==
  /\ proc.op = "init"
  /\ proc.pc = "done"
  /\ proc.result = "ok"
  /\ HasEntries(proc.before)
  /\ file = proc.content
  /\ ~HasEntries(file)

====
